---- MODULE Spec2Model ----
(***************************************************************************)
(* Model of the guard bot in src/cn.py: the in-memory maps, the event      *)
(* handlers as cooperatively scheduled tasks (one atomic step between two  *)
(* awaits), and the platform they call into (membership, audit log,        *)
(* webhooks, clock).                                                       *)
(*                                                                         *)
(* Time is counted in whole seconds and is observed on the instants of     *)
(* ClockGrid.  Account, channel, role and webhook ids are small integers   *)
(* standing for the platform's snowflakes.                                 *)
(***************************************************************************)
EXTENDS Integers, Sequences, FiniteSets, TLC

\* ------------------------------------------------------------------ ids
\* "no value" (Python None) for ids and times
None == 0
NoTime == -1

\* Accounts of the community: 1 trusted human, 2 and 5 untrusted humans,
\* 3 trusted bot, 4 untrusted bot, 6 the guard bot's own account.
Accounts == {1, 2, 3, 4, 5, 6}
BotAccounts == {3, 4, 6}
SelfId == 6
WHITELIST_IDS == {1, 3}

\* ------------------------------------------------------------ constants
INVITE_WINDOW_SECONDS == 15
INVITE_MAX_IN_WINDOW == 5
TIMEOUT_DURATION == 3600
WEBHOOK_MAX_ATTEMPTS == 3
DequeMaxLen == 50
SleepSeconds == 1
ThrottleSeconds == 1
AuditWithinSeconds == 20
AuditPageLimit == 8
WebhookFreshSeconds == 30
WebhookPageLimit == 6

\* --------------------------------------------------------------- bounds
\* handler tasks that may be suspended at the same time
MaxInFlight == 2
\* message events delivered in a run of the message flow
MaxPosts == 6

\* events with an audit lookup (member join, channel/role delete, ban,
\* member remove) delivered in a run of the attribution flow
MaxAdminEvents == 2
\* events with an audit lookup delivered in a run that watches the lookups'
\* self-throttle
MaxLookups == 3
\* audit records the platform writes in a run
MaxAudit == 1
\* audit records the platform writes in a run that watches the scan of
\* find_audit_actor
MaxScanAudit == 2
\* events delivered in such a run
MaxScans == 2
\* records, drawn freely, at the old end of the audit log a run of the page
\* scan starts with
MaxPageTail == 2
\* events delivered in such a run
MaxPageLookups == 1
\* webhooks created in a run
MaxHooks == 2
\* webhooks created in a run in which each is created once the handler of the
\* one before has ended
MaxHooksInTurn == 4
\* fair runs: the second up to which the clock runs on its own, the events
\* with an audit lookup delivered, and the webhooks created
MaxFairClock == 2
\* member-removed events of member 5 in a run that follows the guard bot's kicks
MaxFeedbackEvents == 2
\* webhooks created in a run that also delivers the event of each deletion
MaxEchoHooks == 2
MaxFairEvents == 2
MaxFairHooks == 2

\* the handlers with an audit lookup
AdminKinds == {"on_member_join", "on_guild_channel_delete", "on_guild_role_delete",
               "on_member_ban", "on_member_remove"}

\* the event a run delivers (a run delivers events of one kind, next to the
\* membership changes, audit records and clock ticks of the platform)
Modes == {"on_message", "on_webhooks_update"} \cup AdminKinds

\* the time window a handler compares ages against
WindowOf(m) ==
    CASE m = "on_message" -> INVITE_WINDOW_SECONDS
      [] m = "on_webhooks_update" -> WebhookFreshSeconds
      [] OTHER -> AuditWithinSeconds

\* instants at which the clock is observed in a run: seconds 0 and 1 and,
\* more than one window later, two more, so that ages of exactly the window
\* and of one second more both occur; in a run of on_webhooks_update three
\* early seconds, so that two handlers can run one after the other while the
\* records are fresh
ClockGrid(m) ==
    IF m = "on_webhooks_update"
    THEN {0, 1, 2, WindowOf(m) + 1}
    ELSE {0, 1, WindowOf(m) + 1, WindowOf(m) + 2}

\* --------------------------------------------------------------- state
VARIABLES
    mode,               \* the kind of event delivered in this run
    now,                \* the clock (datetime.now / utcnow), seconds
    members,            \* guild.get_member: accounts in the member cache
    auditLog,           \* the guild's audit log, newest record first
    hooks,              \* ids of the webhooks that exist
    invite_events,      \* user_id -> deque of invite-post timestamps
    last_audit_lookup,  \* (guild, "action:target") -> time of the last lookup
    webhook_attempts,   \* user_id -> webhook creations counted against it
    tasks,              \* slot -> handler task (locals and position)
    nEvents,            \* events delivered so far
    posted,             \* history: every timestamp recorded, per account
    queried,            \* history: key -> time the last audit query was issued
    counted,            \* history: per webhook created, the increments its record caused
    lastCall,           \* the platform call issued by the last step
    lastEval,           \* the threshold test evaluated by the last step, and how
                        \* the delete before it ended
    lastAttr,           \* the attribution made by the last step
    lastDone            \* the handler task that ended in the last step

world == <<mode, now, members, auditLog, hooks>>
maps == <<invite_events, last_audit_lookup, webhook_attempts>>
hist == <<posted, queried, counted>>
vars == <<world, maps, tasks, nEvents, hist, lastCall, lastEval, lastAttr, lastDone>>

Slots == 1..MaxInFlight

\* ------------------------------------------------------------ utilities
\* is_whitelisted, were the whitelist never consulted
is_whitelisted_never(user_id) == FALSE

\* is_whitelisted
is_whitelisted(user_id) == user_id \in WHITELIST_IDS

\* exception classes of discord.py: Forbidden and NotFound derive from
\* HTTPException
IsA(exc, cls) == exc = cls \/ (cls = "HTTPException" /\ exc \in {"Forbidden", "NotFound"})

\* an except-clause list catches exc
Catches(clauses, exc) == \E c \in clauses : IsA(exc, c)

\* outcomes of a platform call: "ok" or the exception raised
Failures == {"Forbidden", "NotFound", "HTTPException"}
Outcomes == {"ok"} \cup Failures

\* deque(maxlen=50).append
DequeAppend(dq, x) ==
    IF Len(dq) >= DequeMaxLen THEN Append(Tail(dq), x) ELSE Append(dq, x)

\* the purge, were its comparison >= instead of >
RECURSIVE PurgeWindow_ge(_, _)
PurgeWindow_ge(dq, t) ==
    IF dq # <<>> /\ t - Head(dq) >= INVITE_WINDOW_SECONDS
    THEN PurgeWindow_ge(Tail(dq), t)
    ELSE dq

\* while dq and (now - dq[0]).total_seconds() > INVITE_WINDOW_SECONDS: dq.popleft()
RECURSIVE PurgeWindow(_, _)
PurgeWindow(dq, t) ==
    IF dq # <<>> /\ t - Head(dq) > INVITE_WINDOW_SECONDS
    THEN PurgeWindow(Tail(dq), t)
    ELSE dq

\* the threshold test, were it to fire on the crossing only
OverThreshold_crossing(dq) == Len(dq) = INVITE_MAX_IN_WINDOW

\* len(dq) >= INVITE_MAX_IN_WINDOW
OverThreshold(dq) == Len(dq) >= INVITE_MAX_IN_WINDOW

\* f"Invite-Spam: >={INVITE_MAX_IN_WINDOW} in {INVITE_WINDOW_SECONDS}s", as its parts
InviteSpamReason == <<"Invite-Spam", ">=INVITE_MAX_IN_WINDOW", "in INVITE_WINDOW_SECONDS s">>

\* safe_kick's guard, were the member cache not asked
KickGuard_unchecked(m, cache) == m # None

\* safe_kick's guard: member and guild.get_member(member.id)
KickGuard(m, cache) == m # None /\ m \in cache

\* try_timeout and find_audit_actor, were their `except HTTPException` missing
TimeoutExcepts_forbidden == {"Forbidden"}
AuditExcepts_forbidden == {"Forbidden"}

\* safe_kick, were its `except HTTPException` missing
KickExcepts_forbidden == {"Forbidden"}

\* except clauses of safe_kick and of try_timeout
KickExcepts == {"Forbidden", "HTTPException"}
TimeoutExcepts == {"Forbidden", "HTTPException"}
\* on_message, were the `except HTTPException` around message.delete() missing
DeleteExcepts_nohttp == {"Forbidden", "NotFound"}
\* except clauses around message.delete() in on_message
DeleteExcepts == {"Forbidden", "NotFound", "HTTPException"}
\* except clauses of find_audit_actor
AuditExcepts == {"Forbidden", "HTTPException"}
\* on_webhooks_update, were its outer `except HTTPException` missing
WebhookExcepts_forbidden == {"Forbidden"}
\* the outer except clauses of on_webhooks_update
WebhookExcepts == {"Forbidden", "HTTPException"}

\* ------------------------------------------------------------ audit log
\* the action each handler looks up
ActionOf(kind) ==
    CASE kind = "on_member_join" -> "bot_add"
      [] kind = "on_guild_channel_delete" -> "channel_delete"
      [] kind = "on_guild_role_delete" -> "role_delete"
      [] kind = "on_member_ban" -> "ban"
      [] kind = "on_member_remove" -> "kick"

\* the kick reason each handler gives for the attributed actor
ReasonOf(kind) ==
    CASE kind = "on_member_join" -> <<"Bot-Invite ohne Whitelist">>
      [] kind = "on_guild_channel_delete" -> <<"Kanal geloescht ohne Whitelist">>
      [] kind = "on_guild_role_delete" -> <<"Rolle geloescht ohne Whitelist">>
      [] kind = "on_member_ban" -> <<"Ban ohne Whitelist">>
      [] kind = "on_member_remove" -> <<"Kick ohne Whitelist">>
BotKickReason == <<"Nicht-whitelisteter Bot-Invite">>

\* ids an event of each kind may carry: member 2 is no bot, 3 and 4 are;
\* channel 11; role 21; account 5 is the one banned or removed
TargetsOf(kind) ==
    CASE kind = "on_member_join" -> {2, 3, 4}
      [] kind = "on_guild_channel_delete" -> {11}
      [] kind = "on_guild_role_delete" -> {21}
      [] kind = "on_member_ban" -> {5}
      [] kind = "on_member_remove" -> {5}

\* accounts an audit record may name as its user (None: not resolvable)
AuditUsers == {None, 1, 2}

\* key = (guild.id, f"{action}:{target_id}"), of the one guild
Key(action, target_id) == [action |-> action, target |-> target_id]
NoKey == [action |-> "none", target |-> None]
\* members whose kick by the guard bot is followed up to the member-removed
\* event it causes
EchoTargets == {2}
Keys == UNION {{Key(ActionOf(k), x) : x \in TargetsOf(k)} : k \in AdminKinds}
            \cup {Key("kick", x) : x \in EchoTargets}

\* key in last_audit_lookup and (now - last_audit_lookup[key]).total_seconds() < 1.0
Throttled(last, key, t) == last[key] # NoTime /\ t - last[key] < ThrottleSeconds

\* the timestamp find_audit_actor stores in last_audit_lookup[key]: its local
\* `now`, read on entry
LookupStamp(lnow, clock) == lnow

\* guild.audit_logs(limit=limit, action=action): the newest records of the action
RECURSIVE OfAction(_, _)
OfAction(log, action) ==
    IF log = <<>> THEN <<>>
    ELSE IF Head(log).action = action
         THEN <<Head(log)>> \o OfAction(Tail(log), action)
         ELSE OfAction(Tail(log), action)
AuditPage(log, action, limit) ==
    LET f == OfAction(log, action) IN
    SubSeq(f, 1, IF Len(f) < limit THEN Len(f) ELSE limit)

\* the age test, were it missing
TooOld_never(entry, t, within) == FALSE

\* (now - entry.created_at).total_seconds() > within_seconds
TooOld(entry, t, within) == t - entry.created_at > within

\* the scan, were the target of an entry not compared
RECURSIVE ScanFrom_anytarget(_, _, _, _, _)
ScanFrom_anytarget(page, i, t, target_id, within) ==
    IF i > Len(page) THEN 0
    ELSE IF TooOld(page[i], t, within) THEN ScanFrom_anytarget(page, i + 1, t, target_id, within)
    ELSE i

\* the scan of find_audit_actor: the index in page of the entry it returns
\* the user of, 0 if it falls through to `return None`
RECURSIVE ScanFrom(_, _, _, _, _)
ScanFrom(page, i, t, target_id, within) ==
    IF i > Len(page) THEN 0
    ELSE IF TooOld(page[i], t, within) THEN ScanFrom(page, i + 1, t, target_id, within)
    ELSE IF target_id # None /\ page[i].target # target_id
         THEN ScanFrom(page, i + 1, t, target_id, within)
    ELSE i

\* ---------------------------------------------------------------- tasks
IdleTask ==
    [kind |-> "idle", pc |-> "idle", subj |-> None, actor |-> None,
     wake |-> 0, lnow |-> 0, victim |-> None,
     page |-> <<>>, idx |-> 0, hook |-> None, chIdx |-> 0,
     tmo |-> "none", nDel |-> 0, nTmo |-> 0, nKick |-> 0, kickRes |-> "none",
     err |-> FALSE, trig |-> None]

NoCall == [op |-> "none", slot |-> 0, target |-> None, cause |-> None,
           dur |-> 0, reason |-> <<>>, key |-> NoKey, prev |-> NoTime]
NoEval == [op |-> "none", who |-> None, over |-> FALSE, del |-> "none"]
NoAttr == [op |-> "none", slot |-> 0, qres |-> "none", idx |-> 0, actor |-> None,
           lnow |-> 0, target |-> None, action |-> "none"]

Call(o, s, tgt, c, d, r) ==
    [op |-> o, slot |-> s, target |-> tgt, cause |-> c, dur |-> d, reason |-> r,
     key |-> NoKey, prev |-> NoTime]
QueryCall(s, k, p) ==
    [op |-> "audit_query", slot |-> s, target |-> None, cause |-> None, dur |-> 0,
     reason |-> <<>>, key |-> k, prev |-> p]

Free(s) == tasks[s].pc = "idle"
\* the slot a new task takes: the lowest free one
FreeSlot == IF \E s \in Slots : Free(s)
            THEN {CHOOSE s \in Slots : Free(s) /\ \A r \in Slots : Free(r) => s <= r}
            ELSE {}

Done(t) == [t EXCEPT !.pc = "done", !.wake = 0, !.lnow = 0, !.victim = None,
                     !.page = <<>>, !.idx = 0, !.hook = None, !.chIdx = 0]

\* task t of slot s after a step: a task that returned leaves its slot and is
\* kept, for the one state, as the handler that has just ended
Commit(s, t) ==
    /\ tasks' = [tasks EXCEPT ![s] = IF t.pc = "done" THEN IdleTask ELSE t]
    /\ lastDone' = IF t.pc = "done" THEN [t EXCEPT !.pc = "ended"] ELSE IdleTask

\* safe_kick(guild, m, reason) up to its await, called by task t in slot s on
\* behalf of account cause: the task and the call issued, if any
SafeKick(t, s, m, cause, reason, pcAwait, cache) ==
    IF KickGuard(m, cache)
    THEN [task |-> [t EXCEPT !.pc = pcAwait, !.victim = m, !.nKick = @ + 1],
          call |-> Call("kick", s, m, cause, 0, reason)]
    ELSE [task |-> t, call |-> NoCall]

\* ------------------------------------------------------------------ init
Init ==
    /\ mode \in Modes
    /\ now = 0
    /\ members = Accounts
    /\ auditLog = <<>>
    /\ hooks = {}
    /\ invite_events = [a \in Accounts |-> <<>>]
    /\ last_audit_lookup = [k \in Keys |-> NoTime]
    /\ webhook_attempts = [a \in Accounts |-> 0]
    /\ tasks = [s \in Slots |-> IdleTask]
    /\ nEvents = 0
    /\ posted = [a \in Accounts |-> <<>>]
    /\ queried = [k \in Keys |-> NoTime]
    /\ counted = <<>>
    /\ lastCall = NoCall
    /\ lastEval = NoEval
    /\ lastAttr = NoAttr
    /\ lastDone = IdleTask

\* ----------------------------------------------------------- environment
\* the clock advances to the next observed instant
Tick ==
    /\ \E t \in ClockGrid(mode) :
          /\ t > now
          /\ \A u \in ClockGrid(mode) : u > now => t <= u
          /\ now' = t
    /\ lastCall' = NoCall
    /\ lastEval' = NoEval
    /\ lastAttr' = NoAttr
    /\ lastDone' = IdleTask
    /\ UNCHANGED <<mode, members, auditLog, hooks, maps, tasks, nEvents, hist>>

\* an account leaves the community (or is removed by someone)
MemberLeaves(a) ==
    /\ a \in members
    /\ members' = members \ {a}
    /\ lastCall' = NoCall
    /\ lastEval' = NoEval
    /\ lastAttr' = NoAttr
    /\ lastDone' = IdleTask
    /\ UNCHANGED <<mode, now, auditLog, hooks, maps, tasks, nEvents, hist>>

\* an account joins the community
MemberJoins(a) ==
    /\ a \notin members
    /\ members' = members \cup {a}
    /\ lastCall' = NoCall
    /\ lastEval' = NoEval
    /\ lastAttr' = NoAttr
    /\ lastDone' = IdleTask
    /\ UNCHANGED <<mode, now, auditLog, hooks, maps, tasks, nEvents, hist>>

\* the platform writes an audit record; the log is read newest first
AuditWrite(action, user, target, cap) ==
    /\ mode \in AdminKinds
    /\ action = ActionOf(mode)
    /\ Len(auditLog) < cap
    /\ auditLog' = <<[action |-> action, user |-> user, target |-> target,
                      created_at |-> now]>> \o auditLog
    /\ lastCall' = NoCall
    /\ lastEval' = NoEval
    /\ lastAttr' = NoAttr
    /\ lastDone' = IdleTask
    /\ UNCHANGED <<mode, now, members, hooks, maps, tasks, nEvents, hist>>

\* ------------------------------------------------------------ on_message
\* on_message up to its first await: the early returns and message.delete()
OnMessage(author, inGuild, hasInvite) ==
    /\ mode = "on_message"
    /\ nEvents < MaxPosts
    /\ \E s \in FreeSlot :
          LET t == [IdleTask EXCEPT !.kind = "on_message", !.subj = author] IN
          IF author \in BotAccounts \/ ~inGuild \/ ~hasInvite
          THEN /\ Commit(s, Done(t))
               /\ lastCall' = NoCall
          ELSE /\ Commit(s, [t EXCEPT !.pc = "msg_delete", !.nDel = 1])
               /\ lastCall' = Call("message_delete", s, author, author, 0, <<>>)
    /\ nEvents' = nEvents + 1
    /\ lastEval' = NoEval
    /\ lastAttr' = NoAttr
    /\ UNCHANGED <<world, maps, hist>>

\* message.delete() returns or raises; then the window update, the threshold
\* test and, over the threshold, try_timeout up to member.edit()
MessageDeleted(s, res) ==
    /\ tasks[s].pc = "msg_delete"
    /\ LET t == tasks[s]
           a == t.subj
           dq == PurgeWindow(DequeAppend(invite_events[a], now), now)
       IN
       IF ~(res = "ok" \/ Catches(DeleteExcepts, res))
       THEN /\ Commit(s, Done([t EXCEPT !.err = TRUE]))
            /\ UNCHANGED <<invite_events, posted>>
            /\ lastCall' = NoCall
            /\ lastEval' = NoEval
       ELSE IF is_whitelisted(a)
       THEN /\ Commit(s, Done(t))
            /\ UNCHANGED <<invite_events, posted>>
            /\ lastCall' = NoCall
            /\ lastEval' = NoEval
       ELSE /\ invite_events' = [invite_events EXCEPT ![a] = dq]
            /\ posted' = [posted EXCEPT ![a] = Append(@, now)]
            /\ lastEval' = [op |-> "eval", who |-> a, over |-> OverThreshold(dq), del |-> res]
            /\ IF OverThreshold(dq) /\ a \in members
               THEN /\ Commit(s, [t EXCEPT !.pc = "timeout", !.nTmo = 1])
                    /\ lastCall' = Call("timeout", s, a, a, TIMEOUT_DURATION, InviteSpamReason)
               ELSE /\ Commit(s, Done(t))
                    /\ lastCall' = NoCall
    /\ lastAttr' = NoAttr
    /\ UNCHANGED <<world, last_audit_lookup, webhook_attempts, nEvents, queried, counted>>

\* member.edit() returns or raises inside try_timeout; on False, safe_kick up
\* to guild.kick()
TimeoutReturns(s, res) ==
    /\ tasks[s].pc = "timeout"
    /\ res = "ok" => tasks[s].subj \in members
    /\ LET t == tasks[s]
           a == t.subj
           k == SafeKick([t EXCEPT !.tmo = "fail"], s, a, a, InviteSpamReason, "kick", members)
       IN
       IF res = "ok"
       THEN /\ Commit(s, Done([t EXCEPT !.tmo = "ok"]))
            /\ lastCall' = NoCall
       ELSE IF ~Catches(TimeoutExcepts, res)
       THEN /\ Commit(s, Done([t EXCEPT !.tmo = "fail", !.err = TRUE]))
            /\ lastCall' = NoCall
       ELSE /\ Commit(s, IF k.call = NoCall THEN Done(k.task) ELSE k.task)
            /\ lastCall' = k.call
    /\ lastEval' = NoEval
    /\ lastAttr' = NoAttr
    /\ UNCHANGED <<world, maps, nEvents, hist>>

\* guild.kick() returns or raises inside safe_kick, the handler's last call
KickReturns(s, res) ==
    /\ tasks[s].pc = "kick"
    /\ res = "ok" => tasks[s].victim \in members
    /\ LET t == tasks[s] IN
       /\ Commit(s, Done([t EXCEPT !.kickRes = IF res = "ok" THEN "ok" ELSE "fail",
                                     !.err = ~(res = "ok" \/ Catches(KickExcepts, res))]))
       /\ members' = IF res = "ok" THEN members \ {t.victim} ELSE members
    /\ lastCall' = NoCall
    /\ lastEval' = NoEval
    /\ lastAttr' = NoAttr
    /\ UNCHANGED <<mode, now, auditLog, hooks, maps, nEvents, hist>>

\* ------------------------------------------- handlers with an audit lookup
\* on_member_join, on_guild_channel_delete, on_guild_role_delete, on_member_ban
\* and on_member_remove up to their first await: asyncio.sleep(1); a joining
\* member that is no bot ends on_member_join at once
OnAdminEvent(kind, target, cap) ==
    /\ mode = kind
    /\ nEvents < cap
    /\ \E s \in FreeSlot :
          LET t == [IdleTask EXCEPT !.kind = kind, !.subj = target] IN
          IF kind = "on_member_join" /\ target \notin BotAccounts
          THEN Commit(s, Done(t))
          ELSE Commit(s, [t EXCEPT !.pc = "sleep", !.wake = now + SleepSeconds])
    /\ nEvents' = nEvents + 1
    /\ lastCall' = NoCall
    /\ lastEval' = NoEval
    /\ lastAttr' = NoAttr
    /\ UNCHANGED <<world, maps, hist>>

\* the sleep ends and find_audit_actor starts: it reads the clock and either
\* sleeps a second (a lookup of the key under a second ago) or stores the
\* lookup time and issues the audit query
LookupStarts(s) ==
    /\ tasks[s].pc = "sleep"
    /\ tasks[s].kind \in AdminKinds
    /\ now >= tasks[s].wake
    /\ LET t == tasks[s]
           key == Key(ActionOf(t.kind), t.subj)
       IN
       IF Throttled(last_audit_lookup, key, now)
       THEN /\ Commit(s, [t EXCEPT !.pc = "throttle", !.lnow = now,
                                                        !.wake = now + ThrottleSeconds])
            /\ UNCHANGED <<last_audit_lookup, queried>>
            /\ lastCall' = NoCall
       ELSE /\ Commit(s, [t EXCEPT !.pc = "audit", !.lnow = now])
            /\ last_audit_lookup' = [last_audit_lookup EXCEPT ![key] = LookupStamp(now, now)]
            /\ queried' = [queried EXCEPT ![key] = now]
            /\ lastCall' = QueryCall(s, key, queried[key])
    /\ lastEval' = NoEval
    /\ lastAttr' = NoAttr
    /\ UNCHANGED <<world, invite_events, webhook_attempts, nEvents, posted, counted>>

\* the throttle, were it a wait for the lookups of the same key that other
\* handlers have in flight
ThrottleOver_serial(t, s) ==
    /\ now >= t.wake
    /\ \A r \in Slots \ {s} :
          ~(tasks[r].pc = "audit" /\ tasks[r].kind = t.kind /\ tasks[r].subj = t.subj)

\* await asyncio.sleep(1) of the throttle is over for task t of slot s
ThrottleOver(t, s) == now >= t.wake

\* the throttle sleep of find_audit_actor ends: it stores its `now` and issues
\* the audit query
ThrottleEnds(s) ==
    /\ tasks[s].pc = "throttle"
    /\ ThrottleOver(tasks[s], s)
    /\ LET t == tasks[s]
           key == Key(ActionOf(t.kind), t.subj)
       IN
       /\ Commit(s, [t EXCEPT !.pc = "audit"])
       /\ last_audit_lookup' = [last_audit_lookup EXCEPT ![key] = LookupStamp(t.lnow, now)]
       /\ queried' = [queried EXCEPT ![key] = now]
       /\ lastCall' = QueryCall(s, key, queried[key])
    /\ lastEval' = NoEval
    /\ lastAttr' = NoAttr
    /\ UNCHANGED <<world, invite_events, webhook_attempts, nEvents, posted, counted>>

\* the audit query returns its page or raises; find_audit_actor scans and
\* returns, and the handler goes on to its first kick, if any
AuditReturns(s, res) ==
    /\ tasks[s].pc = "audit"
    /\ LET t == tasks[s]
           action == ActionOf(t.kind)
           page == AuditPage(auditLog, action, AuditPageLimit)
           i == IF res = "ok" THEN ScanFrom(page, 1, t.lnow, t.subj, AuditWithinSeconds) ELSE 0
           actor == IF i = 0 THEN None ELSE page[i].user
           ta == [t EXCEPT !.actor = actor]
           \* on_member_join: the bot first, then the inviter
           kb == SafeKick(ta, s, t.subj, actor, BotKickReason, "kick_bot", members)
           \* m = guild.get_member(actor.id); if m: safe_kick(guild, m, ...)
           ka == IF actor \in members
                 THEN SafeKick(ta, s, actor, actor, ReasonOf(t.kind), "kick", members)
                 ELSE [task |-> ta, call |-> NoCall]
           k == IF t.kind = "on_member_join" /\ kb.call # NoCall THEN kb ELSE ka
       IN
       /\ lastAttr' = [op |-> "attr", slot |-> s, qres |-> res, idx |-> i, actor |-> actor,
                       lnow |-> t.lnow, target |-> t.subj, action |-> action]
       /\ IF ~(res = "ok" \/ Catches(AuditExcepts, res))
          THEN /\ Commit(s, Done([ta EXCEPT !.err = TRUE]))
               /\ lastCall' = NoCall
          ELSE IF actor # None /\ ~is_whitelisted(actor)
          THEN /\ Commit(s, IF k.call = NoCall THEN Done(k.task) ELSE k.task)
               /\ lastCall' = k.call
          ELSE /\ Commit(s, Done(ta))
               /\ lastCall' = NoCall
    /\ lastEval' = NoEval
    /\ UNCHANGED <<world, maps, nEvents, hist>>

\* the platform has carried out a kick of member x by the guard bot: it
\* writes the kick record, which names the guard bot as its user, and
\* delivers member-removed for x; on_member_remove up to asyncio.sleep(1)
OnKicked(x) ==
    /\ mode = "on_member_remove"
    /\ x \notin members
    /\ \A i \in DOMAIN auditLog : auditLog[i].target # x
    /\ auditLog' = <<[action |-> "kick", user |-> SelfId, target |-> x,
                      created_at |-> now]>> \o auditLog
    /\ \E s \in FreeSlot :
          Commit(s, [IdleTask EXCEPT !.kind = "on_member_remove", !.subj = x,
                                     !.pc = "sleep", !.wake = now + SleepSeconds])
    /\ nEvents' = nEvents + 1
    /\ lastCall' = NoCall
    /\ lastEval' = NoEval
    /\ lastAttr' = NoAttr
    /\ UNCHANGED <<mode, now, members, hooks, maps, hist>>

\* on_member_join: the kick of the bot returns or raises inside safe_kick;
\* then inviter_member = guild.get_member(actor.id) and its safe_kick
BotKickReturns(s, res) ==
    /\ tasks[s].pc = "kick_bot"
    /\ res = "ok" => tasks[s].victim \in members
    /\ LET t == [tasks[s] EXCEPT !.kickRes = IF res = "ok" THEN "ok" ELSE "fail"]
           cache == IF res = "ok" THEN members \ {t.victim} ELSE members
           ka == IF t.actor \in cache
                 THEN SafeKick(t, s, t.actor, t.actor, ReasonOf(t.kind), "kick", cache)
                 ELSE [task |-> t, call |-> NoCall]
       IN
       /\ members' = cache
       /\ IF ~(res = "ok" \/ Catches(KickExcepts, res))
          THEN /\ Commit(s, Done([t EXCEPT !.err = TRUE]))
               /\ lastCall' = NoCall
          ELSE /\ Commit(s, IF ka.call = NoCall THEN Done(ka.task) ELSE ka.task)
               /\ lastCall' = ka.call
    /\ lastEval' = NoEval
    /\ lastAttr' = NoAttr
    /\ UNCHANGED <<mode, now, auditLog, hooks, maps, nEvents, hist>>

\* ------------------------------------------------------ on_webhooks_update
\* every webhook is created in channel 11; channel 12 is the guild's other
\* text channel; guild.text_channels lists both
HookChannel == 11
TextChannels == <<11, 12>>
FirstHookId == 31

\* the loop of on_webhooks_update over the page, from entry i on: the index of
\* the first entry it does not skip (too old, no actor or no target,
\* whitelisted actor), 0 if there is none
RECURSIVE NextEntry(_, _, _)
NextEntry(page, i, t) ==
    IF i > Len(page) THEN 0
    ELSE IF TooOld(page[i], t, WebhookFreshSeconds) THEN NextEntry(page, i + 1, t)
    ELSE IF page[i].user = None \/ page[i].target = None THEN NextEntry(page, i + 1, t)
    ELSE IF is_whitelisted(page[i].user) THEN NextEntry(page, i + 1, t)
    ELSE i

\* the loop, were the actor taken from the first entry of the page and not
\* from the entry it is at
Advance_firstactor(t, s, i) ==
    LET j == NextEntry(t.page, i, now) IN
    IF j = 0
    THEN [task |-> Done(t), call |-> NoCall]
    ELSE [task |-> [t EXCEPT !.pc = "wh_list", !.idx = j, !.actor = t.page[1].user,
                             !.hook = t.page[j].target, !.chIdx = 0],
          call |-> Call("webhook_list", s, t.subj, t.page[1].user, 0, <<>>)]

\* the loop goes on with entry i: it ends, or reaches channel.webhooks() for
\* the next entry it does not skip
Advance(t, s, i) ==
    LET j == NextEntry(t.page, i, now) IN
    IF j = 0
    THEN [task |-> Done(t), call |-> NoCall]
    ELSE [task |-> [t EXCEPT !.pc = "wh_list", !.idx = j, !.actor = t.page[j].user,
                             !.hook = t.page[j].target, !.chIdx = 0],
          call |-> Call("webhook_list", s, t.subj, t.page[j].user, 0, <<>>)]

\* webhook_attempts[actor.id] >= WEBHOOK_MAX_ATTEMPTS
ShouldKick(n) == n >= WEBHOOK_MAX_ATTEMPTS

\* the count of an entry, after the attempt to delete its webhook:
\* webhook_attempts[actor.id] += 1 and, at the threshold, the kick (the reset
\* follows the kick's await) or, the actor being no member, the reset at once
CountAttempt(t, s, attempts, cache) ==
    LET a == t.actor
        n == attempts[a] + 1
        k == IF a \in cache
             THEN SafeKick(t, s, a, a, <<"Mehrfach unzulaessige Webhook-Erstellung">>, "wh_kick", cache)
             ELSE [task |-> t, call |-> NoCall]
        go == Advance(t, s, t.idx + 1)
    IN
    IF ShouldKick(n)
    THEN IF k.call # NoCall
         THEN [task |-> k.task, call |-> k.call, attempts |-> [attempts EXCEPT ![a] = n]]
         ELSE [task |-> go.task, call |-> go.call, attempts |-> [attempts EXCEPT ![a] = 0]]
    ELSE [task |-> go.task, call |-> go.call, attempts |-> [attempts EXCEPT ![a] = n]]

\* the increments of webhook_attempts, by the webhook whose record caused
\* them, after task t has counted its entry
Counted(t) == [counted EXCEPT ![t.hook - FirstHookId + 1] = @ + 1]

\* a task enters on_webhooks_update for a channel: asyncio.sleep(1); the
\* account whose webhook creation caused the event is noted, the handler
\* does not know it
StartWebhookTask(s, ch, a) ==
    Commit(s, [IdleTask EXCEPT !.kind = "on_webhooks_update", !.subj = ch, !.trig = a,
                               !.pc = "sleep", !.wake = now + SleepSeconds])

\* an account creates a webhook: the platform writes the audit record and
\* delivers webhooks-updated for the channel
WebhookCreate(a, cap) ==
    /\ mode = "on_webhooks_update"
    /\ Len(auditLog) < cap
    /\ LET h == FirstHookId + Len(auditLog) IN
       /\ hooks' = hooks \cup {h}
       /\ auditLog' = <<[action |-> "webhook_create", user |-> a, target |-> h,
                         created_at |-> now]>> \o auditLog
    /\ \E s \in FreeSlot : StartWebhookTask(s, HookChannel, a)
    /\ nEvents' = nEvents + 1
    /\ counted' = Append(counted, 0)
    /\ lastCall' = NoCall
    /\ lastEval' = NoEval
    /\ lastAttr' = NoAttr
    /\ UNCHANGED <<mode, now, members, maps, posted, queried>>

\* the platform delivers webhooks-updated for the channel of a webhook that
\* has been deleted, one event for each deletion; no audit record of a
\* creation comes with it
WebhookDeleted ==
    /\ mode = "on_webhooks_update"
    /\ nEvents - Len(auditLog) < Len(auditLog) - Cardinality(hooks)
    /\ \E s \in FreeSlot : StartWebhookTask(s, HookChannel, None)
    /\ nEvents' = nEvents + 1
    /\ lastCall' = NoCall
    /\ lastEval' = NoEval
    /\ lastAttr' = NoAttr
    /\ UNCHANGED <<world, maps, hist>>

\* the sleep ends: the query for the newest webhook_create records
HookQueryStarts(s) ==
    /\ tasks[s].pc = "sleep"
    /\ tasks[s].kind = "on_webhooks_update"
    /\ now >= tasks[s].wake
    /\ Commit(s, [tasks[s] EXCEPT !.pc = "wh_audit"])
    /\ lastCall' = Call("webhook_audit_query", s, None, None, 0, <<>>)
    /\ lastEval' = NoEval
    /\ lastAttr' = NoAttr
    /\ UNCHANGED <<world, maps, nEvents, hist>>

\* the query returns its page or raises (the outer except clauses end the
\* handler); the loop starts
HookPageReturns(s, res) ==
    /\ tasks[s].pc = "wh_audit"
    /\ LET t == [tasks[s] EXCEPT !.page = AuditPage(auditLog, "webhook_create", WebhookPageLimit)]
           go == Advance(t, s, 1)
       IN
       IF res = "ok"
       THEN /\ Commit(s, go.task)
            /\ lastCall' = go.call
       ELSE /\ Commit(s, Done([tasks[s] EXCEPT !.err = ~Catches(WebhookExcepts, res)]))
            /\ lastCall' = NoCall
    /\ lastEval' = NoEval
    /\ lastAttr' = NoAttr
    /\ UNCHANGED <<world, maps, nEvents, hist>>

\* channel.webhooks() returns or raises: the webhook is found and wh.delete()
\* is called, or the search goes on in guild.text_channels, or (an exception,
\* no text channel) the entry is counted
HookListReturns(s, res) ==
    /\ tasks[s].pc = "wh_list"
    /\ LET t == tasks[s]
           found == t.hook \in hooks /\ HookChannel = t.subj
           c == CountAttempt(t, s, webhook_attempts, members)
       IN
       IF res = "ok" /\ found
       THEN /\ Commit(s, [t EXCEPT !.pc = "wh_delete", !.nDel = @ + 1])
            /\ lastCall' = Call("webhook_delete", s, t.hook, t.actor, 0, <<>>)
            /\ UNCHANGED <<webhook_attempts, counted>>
       ELSE IF res = "ok" /\ Len(TextChannels) > 0
       THEN /\ Commit(s, [t EXCEPT !.pc = "wh_fallback", !.chIdx = 1])
            /\ lastCall' = Call("webhook_list", s, TextChannels[1], t.actor, 0, <<>>)
            /\ UNCHANGED <<webhook_attempts, counted>>
       ELSE /\ Commit(s, c.task)
            /\ lastCall' = c.call
            /\ webhook_attempts' = c.attempts
            /\ counted' = Counted(t)
    /\ lastEval' = NoEval
    /\ lastAttr' = NoAttr
    /\ UNCHANGED <<world, invite_events, last_audit_lookup, nEvents, posted, queried>>

\* ch.webhooks() of the search through guild.text_channels returns or raises:
\* Forbidden goes on with the next channel, another exception leaves the search
HookFallbackReturns(s, res) ==
    /\ tasks[s].pc = "wh_fallback"
    /\ LET t == tasks[s]
           found == t.hook \in hooks /\ HookChannel = TextChannels[t.chIdx]
           c == CountAttempt(t, s, webhook_attempts, members)
       IN
       IF res = "ok" /\ found
       THEN /\ Commit(s, [t EXCEPT !.pc = "wh_delete", !.nDel = @ + 1])
            /\ lastCall' = Call("webhook_delete", s, t.hook, t.actor, 0, <<>>)
            /\ UNCHANGED <<webhook_attempts, counted>>
       ELSE IF res \in {"ok", "Forbidden"} /\ t.chIdx < Len(TextChannels)
       THEN /\ Commit(s, [t EXCEPT !.chIdx = @ + 1])
            /\ lastCall' = Call("webhook_list", s, TextChannels[t.chIdx + 1], t.actor, 0, <<>>)
            /\ UNCHANGED <<webhook_attempts, counted>>
       ELSE /\ Commit(s, c.task)
            /\ lastCall' = c.call
            /\ webhook_attempts' = c.attempts
            /\ counted' = Counted(t)
    /\ lastEval' = NoEval
    /\ lastAttr' = NoAttr
    /\ UNCHANGED <<world, invite_events, last_audit_lookup, nEvents, posted, queried>>

\* wh.delete() returns or raises (the inner except clauses); the entry is counted
HookDeleteReturns(s, res) ==
    /\ tasks[s].pc = "wh_delete"
    /\ res = "ok" => tasks[s].hook \in hooks
    /\ LET t == tasks[s]
           c == CountAttempt(t, s, webhook_attempts, members)
       IN
       /\ hooks' = IF res = "ok" THEN hooks \ {t.hook} ELSE hooks
       /\ Commit(s, c.task)
       /\ lastCall' = c.call
       /\ webhook_attempts' = c.attempts
       /\ counted' = Counted(t)
    /\ lastEval' = NoEval
    /\ lastAttr' = NoAttr
    /\ UNCHANGED <<mode, now, members, auditLog, invite_events, last_audit_lookup, nEvents,
                   posted, queried>>

\* the kick at the threshold returns or raises inside safe_kick; the counter
\* is reset and the loop goes on
HookKickReturns(s, res) ==
    /\ tasks[s].pc = "wh_kick"
    /\ res = "ok" => tasks[s].victim \in members
    /\ LET t == [tasks[s] EXCEPT !.kickRes = IF res = "ok" THEN "ok" ELSE "fail", !.victim = None]
           go == Advance(t, s, t.idx + 1)
       IN
       /\ members' = IF res = "ok" THEN members \ {tasks[s].victim} ELSE members
       /\ webhook_attempts' = [webhook_attempts EXCEPT ![t.actor] = 0]
       /\ Commit(s, go.task)
       /\ lastCall' = go.call
    /\ lastEval' = NoEval
    /\ lastAttr' = NoAttr
    /\ UNCHANGED <<mode, now, auditLog, hooks, invite_events, last_audit_lookup, nEvents, hist>>

\* ------------------------------------------------------------------ next
\* accounts that leave and join during a run: the untrusted account the
\* handlers act against and, where a bot joins, the untrusted bot
Churn(m) == IF m = "on_member_join" THEN {2, 4} ELSE {2}

\* a run of the message flow
NextInvite ==
    \/ Tick
    \/ \E a \in Churn(mode) : MemberLeaves(a)
    \/ \E a \in Churn(mode) : MemberJoins(a)
    \/ \E a \in {1, 2, 4} : \E g \in BOOLEAN : \E i \in BOOLEAN : OnMessage(a, g, i)
    \/ \E s \in Slots : \E r \in Outcomes : MessageDeleted(s, r)
    \/ \E s \in Slots : \E r \in Outcomes : TimeoutReturns(s, r)
    \/ \E s \in Slots : \E r \in Outcomes : KickReturns(s, r)

\* a run of the attribution flow
NextAdmin ==
    \/ Tick
    \/ \E a \in Churn(mode) : MemberLeaves(a)
    \/ \E a \in Churn(mode) : MemberJoins(a)
    \/ \E k \in AdminKinds : \E x \in TargetsOf(k) : \E u \in AuditUsers :
          AuditWrite(ActionOf(k), u, x, MaxAudit)
    \/ \E k \in AdminKinds : \E x \in TargetsOf(k) : OnAdminEvent(k, x, MaxAdminEvents)
    \/ \E s \in Slots : LookupStarts(s)
    \/ \E s \in Slots : ThrottleEnds(s)
    \/ \E s \in Slots : \E r \in Outcomes : AuditReturns(s, r)
    \/ \E s \in Slots : \E r \in Outcomes : BotKickReturns(s, r)
    \/ \E s \in Slots : \E r \in Outcomes : KickReturns(s, r)

\* a run of on_webhooks_update
NextWebhook ==
    \/ Tick
    \/ \E a \in Churn(mode) : MemberLeaves(a)
    \/ \E a \in Churn(mode) : MemberJoins(a)
    \/ \E a \in {1, 2} : WebhookCreate(a, MaxHooks)
    \/ \E s \in Slots : HookQueryStarts(s)
    \/ \E s \in Slots : \E r \in Outcomes : HookPageReturns(s, r)
    \/ \E s \in Slots : \E r \in Outcomes : HookListReturns(s, r)
    \/ \E s \in Slots : \E r \in Outcomes : HookFallbackReturns(s, r)
    \/ \E s \in Slots : \E r \in Outcomes : HookDeleteReturns(s, r)
    \/ \E s \in Slots : \E r \in Outcomes : HookKickReturns(s, r)

Next ==
    \/ mode = "on_message" /\ NextInvite
    \/ mode \in AdminKinds /\ NextAdmin
    \/ mode = "on_webhooks_update" /\ NextWebhook

Spec == Init /\ [][Next]_vars

\* the message flow alone, and the attribution flow alone
InitInvite == Init /\ mode = "on_message"
InitAdmin == Init /\ mode \in AdminKinds
SpecInvite == InitInvite /\ [][NextInvite]_vars
SpecAdmin == InitAdmin /\ [][NextAdmin]_vars
InitWebhook == Init /\ mode = "on_webhooks_update"
SpecWebhook == InitWebhook /\ [][NextWebhook]_vars

\* a run of on_webhooks_update in which the untrusted account 2 creates
\* webhooks, every platform call succeeds, and the deletion of a webhook by
\* the handler is followed by the webhooks-updated event of that deletion
NextEcho ==
    \/ Tick
    \/ WebhookCreate(2, MaxEchoHooks)
    \/ WebhookDeleted
    \/ \E s \in Slots : HookQueryStarts(s)
    \/ \E s \in Slots : HookPageReturns(s, "ok")
    \/ \E s \in Slots : HookListReturns(s, "ok")
    \/ \E s \in Slots : HookFallbackReturns(s, "ok")
    \/ \E s \in Slots : HookDeleteReturns(s, "ok")
    \/ \E s \in Slots : HookKickReturns(s, "ok")
SpecEcho == InitWebhook /\ [][NextEcho]_vars

\* a run of on_member_remove in which member 5 is kicked by the untrusted
\* member 2 or leaves, and every kick the guard bot carries out is followed
\* by its own kick record and member-removed event
NextFeedback ==
    \/ Tick
    \/ AuditWrite("kick", 2, 5, MaxAudit)
    \/ OnAdminEvent("on_member_remove", 5, MaxFeedbackEvents)
    \/ \E x \in EchoTargets : OnKicked(x)
    \/ \E s \in Slots : LookupStarts(s)
    \/ \E s \in Slots : ThrottleEnds(s)
    \/ \E s \in Slots : \E r \in Outcomes : AuditReturns(s, r)
    \/ \E s \in Slots : \E r \in Outcomes : KickReturns(s, r)
InitFeedback == Init /\ mode = "on_member_remove"
SpecFeedback == InitFeedback /\ [][NextFeedback]_vars

\* ---------------------------------------------------------- fair runs
\* a handler is in asyncio.sleep and its second has not passed
SleeperWaits ==
    \E s \in Slots : tasks[s].pc \in {"sleep", "throttle"} /\ tasks[s].wake > now

\* the clock advances by a second; past MaxFairClock it is followed only as
\* long as a sleep waits for it
TickFair ==
    /\ now < MaxFairClock \/ SleeperWaits
    /\ now' = now + 1
    /\ lastCall' = NoCall
    /\ lastEval' = NoEval
    /\ lastAttr' = NoAttr
    /\ lastDone' = IdleTask
    /\ UNCHANGED <<mode, members, auditLog, hooks, maps, tasks, nEvents, hist>>

\* a run of any one flow on a clock that never stops while a sleep waits
NextFair ==
    \/ TickFair
    \/ \E a \in {1, 2, 4} : \E g \in BOOLEAN : \E i \in BOOLEAN : OnMessage(a, g, i)
    \/ \E k \in AdminKinds : \E x \in TargetsOf(k) : \E u \in AuditUsers :
          AuditWrite(ActionOf(k), u, x, MaxAudit)
    \/ \E k \in AdminKinds : \E x \in TargetsOf(k) : OnAdminEvent(k, x, MaxFairEvents)
    \/ \E a \in {1, 2} : WebhookCreate(a, MaxFairHooks)
    \/ \E s \in Slots : \E r \in Outcomes : MessageDeleted(s, r)
    \/ \E s \in Slots : \E r \in Outcomes : TimeoutReturns(s, r)
    \/ \E s \in Slots : \E r \in Outcomes : KickReturns(s, r)
    \/ \E s \in Slots : LookupStarts(s)
    \/ \E s \in Slots : ThrottleEnds(s)
    \/ \E s \in Slots : \E r \in Outcomes : AuditReturns(s, r)
    \/ \E s \in Slots : \E r \in Outcomes : BotKickReturns(s, r)
    \/ \E s \in Slots : HookQueryStarts(s)
    \/ \E s \in Slots : \E r \in Outcomes : HookPageReturns(s, r)
    \/ \E s \in Slots : \E r \in Outcomes : HookListReturns(s, r)
    \/ \E s \in Slots : \E r \in Outcomes : HookFallbackReturns(s, r)
    \/ \E s \in Slots : \E r \in Outcomes : HookDeleteReturns(s, r)
    \/ \E s \in Slots : \E r \in Outcomes : HookKickReturns(s, r)

\* the event loop resumes the task of slot s once what it awaits is done: its
\* sleep is over, or its platform call has returned or raised
Resumes(s) ==
    /\ WF_vars(LookupStarts(s))
    /\ WF_vars(ThrottleEnds(s))
    /\ WF_vars(HookQueryStarts(s))
    /\ WF_vars(\E r \in Outcomes : MessageDeleted(s, r))
    /\ WF_vars(\E r \in Outcomes : TimeoutReturns(s, r))
    /\ WF_vars(\E r \in Outcomes : KickReturns(s, r))
    /\ WF_vars(\E r \in Outcomes : AuditReturns(s, r))
    /\ WF_vars(\E r \in Outcomes : BotKickReturns(s, r))
    /\ WF_vars(\E r \in Outcomes : HookPageReturns(s, r))
    /\ WF_vars(\E r \in Outcomes : HookListReturns(s, r))
    /\ WF_vars(\E r \in Outcomes : HookFallbackReturns(s, r))
    /\ WF_vars(\E r \in Outcomes : HookDeleteReturns(s, r))
    /\ WF_vars(\E r \in Outcomes : HookKickReturns(s, r))

\* time passes and the task of slot 1 is resumed; nothing is assumed of the
\* task of slot 2, whose sleep or platform call may never end
SpecFair == Init /\ [][NextFair]_vars /\ WF_vars(TickFair) /\ Resumes(1)

\* a run of on_webhooks_update in which the untrusted account 2 creates one
\* webhook after the other, each once the handler of the one before has
\* ended, stays in the community unless kicked, and every platform call
\* succeeds
NoTaskRunning == \A s \in Slots : tasks[s].pc = "idle"
NextInTurn ==
    \/ Tick
    \/ NoTaskRunning /\ WebhookCreate(2, MaxHooksInTurn)
    \/ \E s \in Slots : HookQueryStarts(s)
    \/ \E s \in Slots : HookPageReturns(s, "ok")
    \/ \E s \in Slots : HookListReturns(s, "ok")
    \/ \E s \in Slots : HookFallbackReturns(s, "ok")
    \/ \E s \in Slots : HookDeleteReturns(s, "ok")
    \/ \E s \in Slots : HookKickReturns(s, "ok")
SpecInTurn == InitWebhook /\ [][NextInTurn]_vars

\* the attribution flow with no audit record written and no membership
\* change: the lookups and their self-throttle alone
NextLookups ==
    \/ Tick
    \/ \E k \in AdminKinds : \E x \in TargetsOf(k) : OnAdminEvent(k, x, MaxLookups)
    \/ \E s \in Slots : LookupStarts(s)
    \/ \E s \in Slots : ThrottleEnds(s)
    \/ \E s \in Slots : \E r \in Outcomes : AuditReturns(s, r)
SpecLookups == InitAdmin /\ [][NextLookups]_vars

\* the attribution flow up to the return of find_audit_actor, with a longer
\* audit log, so that a lookup scans past records before it returns; every
\* audit query succeeds
NextScan ==
    \/ Tick
    \/ \E k \in AdminKinds : \E x \in TargetsOf(k) : \E u \in AuditUsers :
          AuditWrite(ActionOf(k), u, x, MaxScanAudit)
    \/ \E k \in AdminKinds : \E x \in TargetsOf(k) : OnAdminEvent(k, x, MaxScans)
    \/ \E s \in Slots : LookupStarts(s)
    \/ \E s \in Slots : ThrottleEnds(s)
    \/ \E s \in Slots : AuditReturns(s, "ok")
SpecScan == InitAdmin /\ [][NextScan]_vars

\* the page scan of find_audit_actor on audit logs of every shape: a run of
\* on_member_remove for member 5 that starts at second 21 with a log that
\* already holds records: none, 7 or 8 newer records that do not qualify (of
\* another target, or of another action, which the query filters out) in
\* front of up to MaxPageTail records of the action, of either target, any
\* user and ages that are 1, 20 or 21 seconds at second 22
PageTimes == {1, 2, 21}
PageRecords == [action : {"kick"}, user : AuditUsers, target : {2, 5},
                created_at : PageTimes]
NewestFirst(log) ==
    \A i \in 1..(Len(log) - 1) : log[i].created_at >= log[i + 1].created_at
PageTails ==
    UNION {{q \in [1..n -> PageRecords] : NewestFirst(q)} : n \in 0..MaxPageTail}
Filler(kind) ==
    [action |-> IF kind = "action" THEN "ban" ELSE "kick", user |-> 2,
     target |-> IF kind = "target" THEN 2 ELSE 5, created_at |-> 21]
PadCounts == {0, AuditPageLimit - 1, AuditPageLimit}
PageLogs ==
    {[i \in 1..n |-> Filler(k)] \o q :
        n \in PadCounts, k \in {"target", "action"}, q \in PageTails}
InitPage ==
    /\ mode = "on_member_remove"
    /\ now = 21
    /\ members = Accounts
    /\ auditLog \in PageLogs
    /\ hooks = {}
    /\ invite_events = [a \in Accounts |-> <<>>]
    /\ last_audit_lookup = [k \in Keys |-> NoTime]
    /\ webhook_attempts = [a \in Accounts |-> 0]
    /\ tasks = [s \in Slots |-> IdleTask]
    /\ nEvents = 0
    /\ posted = [a \in Accounts |-> <<>>]
    /\ queried = [k \in Keys |-> NoTime]
    /\ counted = <<>>
    /\ lastCall = NoCall
    /\ lastEval = NoEval
    /\ lastAttr = NoAttr
    /\ lastDone = IdleTask
NextPage ==
    \/ Tick
    \/ \E k \in AdminKinds : \E x \in TargetsOf(k) : OnAdminEvent(k, x, MaxPageLookups)
    \/ \E s \in Slots : LookupStarts(s)
    \/ \E s \in Slots : \E r \in Outcomes : AuditReturns(s, r)
    \/ \E s \in Slots : \E r \in Outcomes : KickReturns(s, r)
SpecPage == InitPage /\ [][NextPage]_vars

\* ================================================================ claims
Enforcement == {"timeout", "kick"}

\* number of the timestamps of seq that lie in the span of `span` seconds
\* ending at t
InSpan(seq, t, span) == Cardinality({i \in DOMAIN seq : seq[i] <= t /\ t - seq[i] <= span})

\* webhook_create records of account a in the audit log
Created(a) == Cardinality({i \in DOMAIN auditLog :
                  auditLog[i].action = "webhook_create" /\ auditLog[i].user = a})

\* ---------------------------------------------------------------- C1
\* C1, as stated: no message delete, timeout, kick or webhook delete is issued
\* by a handler on behalf of a trusted account (the poster of the message, the
\* actor the audit record names).
C1_TrustedNoCallAtAll ==
    lastCall.op \in {"message_delete", "timeout", "kick", "webhook_delete"}
        => lastCall.cause \notin WHITELIST_IDS

\* C1, amended: no timeout, kick or webhook delete is issued on behalf of a
\* trusted poster or actor, and a handler that ends with a trusted poster or
\* attributed actor has issued no timeout and no kick; the delete of the invite
\* message is issued for every poster.
C1_TrustedNoPenalty ==
    /\ lastCall.op \in {"timeout", "kick", "webhook_delete"}
          => lastCall.cause \notin WHITELIST_IDS
    /\ (lastDone.pc = "ended" /\ lastDone.kind = "on_message"
          /\ lastDone.subj \in WHITELIST_IDS)
          => lastDone.nTmo = 0 /\ lastDone.nKick = 0
    /\ (lastDone.pc = "ended" /\ lastDone.kind \in AdminKinds
          /\ lastDone.actor \in WHITELIST_IDS)
          => lastDone.nKick = 0

\* a trusted account's invite message was deleted and its handler has ended
C1_Witness ==
    /\ lastDone.pc = "ended"
    /\ lastDone.kind = "on_message"
    /\ lastDone.subj \in WHITELIST_IDS
    /\ lastDone.nDel = 1

\* ---------------------------------------------------------------- C2
\* C2: no timeout and no kick is ever issued against a trusted account,
\* whatever the event and whoever the attributed actor.
C2_TrustedNeverTarget ==
    lastCall.op \in Enforcement => lastCall.target \notin WHITELIST_IDS

\* ---------------------------------------------------------------- C3
\* C3: the threshold test of a post is true iff at least 5 of the timestamps
\* recorded for the account, the current one included, lie in the 15 seconds
\* ending at that post; posts at least 15 seconds apart never make it true.
C3_ThresholdIffFiveInSpan ==
    lastEval.op = "eval" =>
        LET seq == posted[lastEval.who] IN
        /\ lastEval.over <=> InSpan(seq, now, INVITE_WINDOW_SECONDS) >= INVITE_MAX_IN_WINDOW
        /\ (\A i \in 1..(Len(seq) - 1) : seq[i + 1] - seq[i] >= INVITE_WINDOW_SECONDS)
              => ~lastEval.over

\* the test is true on a post that purged an older timestamp
C3_Witness ==
    /\ lastEval.op = "eval"
    /\ lastEval.over
    /\ Len(invite_events[lastEval.who]) < Len(posted[lastEval.who])

\* ---------------------------------------------------------------- C4
\* C4: find_audit_actor never returns the actor of a record older than
\* within_seconds at the lookup time, and returns None when every record of
\* the target is that old.
C4_NoStaleAttribution ==
    lastAttr.op = "attr" =>
        LET page == AuditPage(auditLog, lastAttr.action, AuditPageLimit) IN
        /\ lastAttr.idx # 0 =>
              lastAttr.lnow - page[lastAttr.idx].created_at <= AuditWithinSeconds
        /\ (\A i \in DOMAIN page :
                page[i].target = lastAttr.target
                    => lastAttr.lnow - page[i].created_at > AuditWithinSeconds)
              => lastAttr.actor = None

\* a lookup scanned two records of its target and action, each named by an
\* account and too old, and returned None
C4_Witness ==
    /\ lastAttr.op = "attr"
    /\ lastAttr.qres = "ok"
    /\ lastAttr.actor = None
    /\ Cardinality({i \in DOMAIN auditLog :
          /\ auditLog[i].action = lastAttr.action
          /\ auditLog[i].target = lastAttr.target
          /\ auditLog[i].user # None
          /\ lastAttr.lnow - auditLog[i].created_at > AuditWithinSeconds}) >= 2

\* ---------------------------------------------------------------- C5
\* C5: a timeout or a kick is issued only against an account that is in the
\* member cache in the step that issues the call.
C5_OnlyMembers ==
    lastCall.op \in Enforcement => lastCall.target \in members

\* a kick issued by safe_kick after the timeout of its target failed
C5_Witness ==
    /\ lastCall.op = "kick"
    /\ tasks[lastCall.slot].tmo = "fail"
    /\ lastCall.target \in members

\* ---------------------------------------------------------------- C6
\* C6: account 2 creates webhooks one after the other, each followed by one
\* webhooks-updated event handled before the next and while its record is
\* fresh: when a handler ends the counter is the number of creations modulo 3
\* (0 after the third, 1 after the fourth), and a kick is issued at the third
\* creation only.
AllRecordsFresh ==
    \A i \in DOMAIN auditLog : now - auditLog[i].created_at <= WebhookFreshSeconds
C6_ScenarioD ==
    AllRecordsFresh =>
        /\ (lastDone.pc = "ended" /\ lastDone.kind = "on_webhooks_update")
              => /\ webhook_attempts[2] = Created(2) % WEBHOOK_MAX_ATTEMPTS
                 /\ lastDone.nKick > 0 => Created(2) = WEBHOOK_MAX_ATTEMPTS
        /\ (lastCall.op = "kick" /\ tasks[lastCall.slot].kind = "on_webhooks_update")
              => Created(lastCall.target) = WEBHOOK_MAX_ATTEMPTS

\* ---------------------------------------------------------------- C7
\* C7: over the threshold the timeout comes first; a handler whose timeout
\* succeeded issues no kick; one whose timeout failed goes on to safe_kick,
\* which issues the kick unless the account has left; a failed kick ends the
\* handler with nothing done and no exception.
C7_TimeoutThenKick ==
    /\ \A s \in Slots :
          tasks[s].kind = "on_message" /\ tasks[s].pc = "kick"
              => tasks[s].nTmo = 1 /\ tasks[s].tmo = "fail"
    /\ (lastDone.pc = "ended" /\ lastDone.kind = "on_message") =>
          /\ ~lastDone.err
          /\ lastDone.tmo = "ok" => lastDone.nKick = 0
          /\ lastDone.nKick > 0 => lastDone.tmo = "fail"
          /\ (lastDone.tmo = "fail" /\ lastDone.nKick = 0) => lastDone.subj \notin members

\* a handler has ended after its timeout and its kick both failed
C7_Witness ==
    /\ lastDone.pc = "ended"
    /\ lastDone.kind = "on_message"
    /\ lastDone.tmo = "fail"
    /\ lastDone.kickRes = "fail"
    /\ ~lastDone.err

\* ---------------------------------------------------------------- C8
\* C8: a post of a member that is recorded as the fifth or a later one within
\* 15 seconds (so also within 10) issues a timeout of one hour whose reason
\* holds "Invite-Spam", every time; no timeout or kick is issued before an
\* account has five posts recorded.
C8_FifthPostTimesOut ==
    /\ (lastEval.op = "eval" /\ lastEval.who \in members
          /\ InSpan(posted[lastEval.who], now, INVITE_WINDOW_SECONDS) >= INVITE_MAX_IN_WINDOW)
          => /\ lastCall.op = "timeout"
             /\ lastCall.target = lastEval.who
             /\ lastCall.dur = 3600
             /\ \E i \in DOMAIN lastCall.reason : lastCall.reason[i] = "Invite-Spam"
    /\ (lastEval.op = "eval" /\ lastEval.who \in members
          /\ InSpan(posted[lastEval.who], now, 10) >= 5)
          => lastCall.op = "timeout"
    /\ (lastCall.op \in Enforcement /\ tasks[lastCall.slot].kind = "on_message")
          => Len(posted[lastCall.target]) >= 5

\* a sixth post within the window issues the timeout again
C8_Witness ==
    /\ lastCall.op = "timeout"
    /\ lastEval.op = "eval"
    /\ InSpan(posted[lastEval.who], now, 10) >= 6

\* ---------------------------------------------------------------- C9
\* C9: a handler whose audit query failed, or whose page held no record of the
\* target at most within_seconds old, issues no call and ends without an error.
C9_FailsOpen ==
    (/\ lastAttr.op = "attr"
     /\ \/ lastAttr.qres # "ok"
        \/ ~\E i \in DOMAIN auditLog :
              /\ auditLog[i].action = lastAttr.action
              /\ auditLog[i].target = lastAttr.target
              /\ lastAttr.lnow - auditLog[i].created_at <= AuditWithinSeconds)
    => /\ lastCall = NoCall
       /\ lastDone.pc = "ended"
       /\ lastDone.nKick = 0
       /\ ~lastDone.err

\* the query failed with a transient error while the log held a fresh record
\* of the target naming an untrusted member
C9_Witness ==
    /\ lastAttr.op = "attr"
    /\ lastAttr.qres = "HTTPException"
    /\ lastDone.pc = "ended"
    /\ \E i \in DOMAIN auditLog :
          /\ auditLog[i].action = lastAttr.action
          /\ auditLog[i].target = lastAttr.target
          /\ auditLog[i].user \in members \ WHITELIST_IDS
          /\ lastAttr.lnow - auditLog[i].created_at <= AuditWithinSeconds

\* --------------------------------------------------------------- C10
\* C10: two audit queries for the same key are never issued less than one
\* second apart.
C10_QueriesSpaced ==
    (lastCall.op = "audit_query" /\ lastCall.prev # NoTime)
        => now - lastCall.prev >= ThrottleSeconds

\* --------------------------------------------------------------- C11
\* C11: the actor find_audit_actor returns is the user of the newest record,
\* among the first 8 of the action, that is at most within_seconds old and
\* has the target id; it is None when there is no such record or the query
\* failed.
C11_NewestFreshMatching ==
    lastAttr.op = "attr" =>
        LET f == SelectSeq(auditLog, LAMBDA e : e.action = lastAttr.action)
            Q == {i \in 1..Len(f) :
                    /\ i <= 8
                    /\ lastAttr.lnow - f[i].created_at <= 20
                    /\ f[i].target = lastAttr.target}
        IN
        lastAttr.actor =
            IF lastAttr.qres = "ok" /\ Q # {}
            THEN f[CHOOSE i \in Q : \A j \in Q : i <= j].user
            ELSE None

\* a lookup passed seven records that do not qualify and returned the actor
\* of the eighth, the last of its page, with more records behind it
C11_Witness ==
    /\ lastAttr.op = "attr"
    /\ lastAttr.idx = 8
    /\ lastAttr.actor # None
    /\ Len(auditLog) > 8

\* --------------------------------------------------------------- C12
\* increments of webhook_attempts[a] so far: those caused by the records of
\* the webhooks a created (webhook i of the run is record Len - i + 1 of the
\* log, which is newest first)
RECURSIVE IncrementsFrom(_, _)
IncrementsFrom(a, i) ==
    IF i > Len(counted) THEN 0
    ELSE (IF auditLog[Len(auditLog) - i + 1].user = a THEN counted[i] ELSE 0)
         + IncrementsFrom(a, i + 1)
Increments(a) == IncrementsFrom(a, 1)

\* handlers awaiting the kick they issued at the threshold of account a
HookKickPending(a) ==
    {s \in Slots : tasks[s].pc = "wh_kick" /\ tasks[s].actor = a}

\* C12: what every serial execution of the handlers keeps: the counter of an
\* account never exceeds 3, at most one handler awaits a threshold kick of
\* the account, and with no handler running the counter is the number of
\* increments modulo 3 (no increment was discarded by a reset).
C12_Serializable ==
    \A a \in Accounts :
        /\ webhook_attempts[a] <= WEBHOOK_MAX_ATTEMPTS
        /\ Cardinality(HookKickPending(a)) <= 1
        /\ NoTaskRunning => webhook_attempts[a] = Increments(a) % WEBHOOK_MAX_ATTEMPTS

\* --------------------------------------------------------------- C13
\* the positions at which a handler awaits guild.kick()
KickPcs == {"kick", "kick_bot", "wh_kick"}

\* C13: when a kick of an account is issued, no other handler has a kick of
\* that account in flight (the account being still a member, both calls fall
\* in one period of membership).
C13_OneKickPerMember ==
    lastCall.op = "kick" =>
        \A s \in Slots \ {lastCall.slot} :
            ~(tasks[s].pc \in KickPcs /\ tasks[s].victim = lastCall.target)

\* --------------------------------------------------------------- C14
\* the audit entry the loop of a webhooks-updated handler is at
EntryOf(t) == t.page[t.idx]

\* the handler steps that change the window or the counter of account b, and
\* the account an enforcement call is issued against, by the account that
\* owner(t) gives for a webhooks-updated handler t
FrameStep(owner(_)) ==
    /\ \A b \in Accounts :
          /\ invite_events'[b] # invite_events[b] =>
                \E s \in Slots : /\ tasks[s].kind = "on_message"
                                 /\ tasks[s].subj = b
                                 /\ tasks'[s] # tasks[s]
          /\ webhook_attempts'[b] # webhook_attempts[b] =>
                \E s \in Slots : /\ tasks[s].kind = "on_webhooks_update"
                                 /\ owner(tasks[s]) = b
                                 /\ tasks'[s] # tasks[s]
    /\ lastCall'.op \in {"webhook_delete", "timeout", "kick"} =>
          LET t == tasks[lastCall'.slot] IN
          CASE t.kind = "on_message" -> lastCall'.target = t.subj
            [] t.kind = "on_webhooks_update" -> lastCall'.cause = owner(t)
            [] OTHER ->
                 \/ t.kind = "on_member_join" /\ lastCall'.target = t.subj
                 \/ \E i \in DOMAIN auditLog :
                       /\ auditLog[i].action = ActionOf(t.kind)
                       /\ auditLog[i].target = t.subj
                       /\ auditLog[i].user = lastCall'.target

\* the account whose webhook creation caused the event a handler handles
TriggerOf(t) == t.trig
\* the account the audit entry names that the handler's loop is at
EntryUserOf(t) == IF t.idx \in DOMAIN t.page THEN EntryOf(t).user ELSE None

\* C14, as stated: a handler changes the window and the counter of, and
\* issues webhook deletes, timeouts and kicks on behalf of, no account but the
\* one its event is about: the poster, the actor attributed for the event's
\* target (and the joining bot), the account whose webhook creation caused
\* the webhooks-updated event.
C14_FrameByEvent == [][FrameStep(TriggerOf)]_vars

\* C14, amended: as above, but a webhooks-updated handler acts on the account
\* named by the audit entry its loop is at, whichever account's webhook
\* creation caused the event.
C14_FrameByEntry == [][FrameStep(EntryUserOf)]_vars

\* a webhook delete is issued on behalf of another account than the one
\* whose webhook creation caused the event
C14_Witness ==
    /\ lastCall.op = "webhook_delete"
    /\ tasks[lastCall.slot].trig # None
    /\ lastCall.cause # tasks[lastCall.slot].trig

\* --------------------------------------------------------------- C15
\* C15: when find_audit_actor returns in on_member_join of a bot: with no
\* actor or a trusted one the handler ends with no call; with an untrusted
\* actor it issues the kick of the bot (if the bot is still a member) and the
\* kick of the inviter only once the kick of the bot has returned or was
\* skipped, and only if the inviter is a member; no kick is issued otherwise
\* and the handler ends without an error.
C15_BotJoinProtocol ==
    /\ (lastAttr.op = "attr" /\ lastAttr.action = "bot_add") =>
          LET act == lastAttr.actor
              bot == lastAttr.target
              bad == act # None /\ act \notin WHITELIST_IDS
          IN
          /\ ~bad => lastCall = NoCall /\ lastDone.pc = "ended" /\ lastDone.nKick = 0
          /\ (bad /\ bot \in members) => lastCall.op = "kick" /\ lastCall.target = bot
          /\ (bad /\ bot \notin members /\ act \in members)
                => lastCall.op = "kick" /\ lastCall.target = act
          /\ (bad /\ bot \notin members /\ act \notin members)
                => lastCall = NoCall /\ lastDone.pc = "ended"
    /\ \A s \in Slots :
          (tasks[s].kind = "on_member_join" /\ tasks[s].pc = "kick") =>
              /\ tasks[s].victim = tasks[s].actor
              /\ tasks[s].actor \notin WHITELIST_IDS
              /\ \/ tasks[s].nKick = 2 /\ tasks[s].kickRes # "none"
                 \/ tasks[s].nKick = 1 /\ tasks[s].kickRes = "none"
              /\ (lastCall.op = "kick" /\ lastCall.slot = s) =>
                    /\ lastCall.target \in members
                    /\ tasks[s].nKick = 1 => lastAttr.op = "attr" /\ lastAttr.target \notin members
    /\ \A s \in Slots :
          (tasks[s].kind = "on_member_join" /\ tasks[s].pc = "kick_bot") =>
              tasks[s].victim = tasks[s].subj /\ tasks[s].nKick = 1
    /\ (lastDone.pc = "ended" /\ lastDone.kind = "on_member_join") =>
          /\ ~lastDone.err
          /\ lastDone.nKick > 0 =>
                lastDone.actor # None /\ lastDone.actor \notin WHITELIST_IDS

\* the kick of the inviter is issued after the kick of the bot failed
C15_Witness ==
    /\ lastCall.op = "kick"
    /\ tasks[lastCall.slot].kind = "on_member_join"
    /\ lastCall.target = tasks[lastCall.slot].actor
    /\ tasks[lastCall.slot].nKick = 2
    /\ tasks[lastCall.slot].kickRes = "fail"

\* --------------------------------------------------------------- C16
\* a step of the message flow: a message of an author in `authors`, received
\* in a community and holding an invite link, has its delete issued on
\* arrival; the window of an account is updated, and a timeout or kick is
\* issued, only by a handler whose delete has been issued and has returned;
\* when a delete returns, with success or any failure, an untrusted author's
\* post is recorded and the threshold test evaluated, and nothing is recorded
\* for a trusted author
DeleteFirstStep(authors) ==
    /\ \A a \in authors :
          OnMessage(a, TRUE, TRUE) => lastCall'.op = "message_delete" /\ lastCall'.target = a
    /\ \A b \in Accounts :
          (invite_events'[b] # invite_events[b] \/ posted'[b] # posted[b]) =>
              \E s \in Slots : /\ tasks[s].pc = "msg_delete"
                               /\ tasks[s].nDel = 1
                               /\ tasks[s].subj = b
                               /\ tasks'[s] # tasks[s]
    /\ (lastCall'.op \in Enforcement /\ tasks[lastCall'.slot].kind = "on_message") =>
          tasks[lastCall'.slot].pc \in {"msg_delete", "timeout"} /\ tasks[lastCall'.slot].nDel = 1
    /\ \A s \in Slots :
          (tasks[s].pc = "msg_delete" /\ tasks'[s] # tasks[s]) =>
              LET a == tasks[s].subj IN
              IF a \in WHITELIST_IDS
              THEN posted'[a] = posted[a] /\ invite_events'[a] = invite_events[a]
              ELSE /\ posted'[a] = Append(posted[a], now)
                   /\ lastEval'.op = "eval" /\ lastEval'.who = a
                   /\ ~lastDone'.err

\* C16, as stated: the above for the messages of every author.
C16_DeleteForEveryAuthor == [][DeleteFirstStep(Accounts)]_vars

\* C16, amended: the above for the messages of every author that is no bot
\* account; on_message returns at once on a message of a bot.
C16_DeleteFirst == [][DeleteFirstStep(Accounts \ BotAccounts)]_vars

\* the delete raised NotFound and the post was recorded and over the threshold
C16_Witness ==
    /\ lastEval.op = "eval"
    /\ lastEval.del = "NotFound"
    /\ lastEval.over
    /\ posted[lastEval.who] # <<>>

\* --------------------------------------------------------------- C17
\* the webhook whose record task t is at has one more increment counted
CountedOnce(t) ==
    counted'[t.hook - FirstHookId + 1] = counted[t.hook - FirstHookId + 1] + 1

\* C17: a handler that ends has raised nothing, whatever each of its calls
\* returned or raised; in on_webhooks_update a channel.webhooks() or a
\* wh.delete() that raises (in the search through the text channels,
\* Forbidden only once the last channel is reached) leaves the webhook in
\* place, issues no delete, and the entry is counted in that step.
C17_NoFailurePropagates ==
    [][/\ lastDone'.pc = "ended" => ~lastDone'.err
       /\ \A s \in Slots : ~tasks'[s].err
       /\ \A s \in Slots : \A r \in Failures :
             /\ (HookListReturns(s, r) \/ HookDeleteReturns(s, r)) =>
                   /\ CountedOnce(tasks[s])
                   /\ hooks' = hooks
                   /\ lastCall'.op # "webhook_delete"
             /\ (HookFallbackReturns(s, r)
                    /\ (r # "Forbidden" \/ tasks[s].chIdx = Len(TextChannels))) =>
                   /\ CountedOnce(tasks[s])
                   /\ hooks' = hooks
                   /\ lastCall'.op # "webhook_delete"
      ]_vars

\* a webhooks-updated handler has ended without an error after the one delete
\* it issued failed: the webhook is still there and its record is counted
C17_Witness ==
    /\ lastDone.pc = "ended"
    /\ lastDone.kind = "on_webhooks_update"
    /\ ~lastDone.err
    /\ lastDone.nDel = 1
    /\ hooks = {FirstHookId}
    /\ counted = <<1>>

\* --------------------------------------------------------------- C18
\* C18: when time passes and the task of slot 1 is resumed whenever its sleep
\* is over or its call has returned or raised, every handler that runs in
\* slot 1 ends, whatever becomes of the handler in slot 2, which may stay in
\* its sleep or in its audit query for ever.
C18_HandlerCompletes == (tasks[1].pc # "idle") ~> (tasks[1].pc = "idle")

\* a handler that went through its lookup and a kick has ended in slot 1
\* while the handler of slot 2, delivered meanwhile, waits in its sleep or
\* for its audit query
C18_Witness ==
    /\ lastDone.pc = "ended"
    /\ lastDone.kind \in AdminKinds
    /\ lastDone.nKick >= 1
    /\ tasks[1].pc = "idle"
    /\ tasks[2].pc \in {"sleep", "audit"}

\* --------------------------------------------------------------- C19
\* C19: the audit record of a webhook's creation adds at most one to its
\* actor's webhook_attempts counter, over all the webhooks-updated events of
\* a run (those of creations and those of the handler's own deletions).
C19_CountedOnce == \A i \in DOMAIN counted : counted[i] <= 1

\* --------------------------------------------------------------- C20
\* C20: no kick and no timeout is issued on account of a kick record whose
\* user is the guard bot itself, and none has the guard bot as its target.
C20_NoFeedback ==
    lastCall.op \in {"kick", "timeout"} =>
        lastCall.cause # SelfId /\ lastCall.target # SelfId

====
